---- MODULE Spec2Model ----
(***************************************************************************)
(* A model of task.py: the canonicalizer (_canonical_clean), the grader    *)
(* (grading_func), the pass-through submit_answer_tool and the expression  *)
(* evaluator (python_expression_tool).                                     *)
(*                                                                         *)
(* A Python str is a sequence of characters; a character is a one-letter   *)
(* TLA+ string, except the em dash U+2014 of the dataset, which TLA+       *)
(* strings cannot hold and which is written "U+2014".  A Python value is a *)
(* record [type, val] so that isinstance can be asked of it.               *)
(***************************************************************************)
EXTENDS Naturals, Integers, Sequences, FiniteSets, TLC

VARIABLES
    raw,         \* the argument _canonical_clean is called with
    nfrag,       \* how many pieces raw was written from
    cleaned,     \* what _canonical_clean(raw) returned
    agent_answer,\* the value the agent is about to submit
    submission,  \* what submit_answer_tool returned
    verdict,     \* what grading_func did with the submitted answer
    sys_stdout,  \* sys.stdout, process-wide
    buffers,     \* the text held by each StringIO that is still referenced
    pc,          \* per thread: where it is in python_expression_tool
    ncalls,      \* per thread: how many calls it has started
    old_stdout,  \* per thread: the local old_stdout
    local_ns,    \* per thread: the local local_ns
    code,        \* per thread: the statements of expression executed so far
    pending,     \* per thread: the exception being propagated
    output,      \* per thread: the local output
    ret,         \* per thread: how its last call ended
    overlap,     \* per thread: did its call run while another was in flight
    everBound    \* the names bound by the code of calls that have ended

cvars == <<raw, nfrag, cleaned>>
gvars == <<agent_answer, submission, verdict>>
evars == <<sys_stdout, buffers, pc, ncalls, old_stdout, local_ns, code, pending,
           output, ret, overlap, everBound>>
vars == <<cvars, gvars, evars>>

\* ------------------------------------------------------------------------
\* Python values
\* ------------------------------------------------------------------------
PyStr(s) == [type |-> "str", val |-> s]
PyList(xs) == [type |-> "list", val |-> xs]
PyTuple(xs) == [type |-> "tuple", val |-> xs]
PyInt(n) == [type |-> "int", val |-> n]
PyNone == [type |-> "NoneType", val |-> <<>>]

isinstance(x, t) == x.type = t

\* ------------------------------------------------------------------------
\* Dataset used inside prompt + grader
\* ------------------------------------------------------------------------
ORIGINAL_REVIEWS == <<
    \* 'I LOVE this product!!!  '
    <<"I", " ", "L", "O", "V", "E", " ", "t", "h", "i", "s", " ", "p", "r", "o",
      "d", "u", "c", "t", "!", "!", "!", " ", " ">>,
    \* '<br>Terrible idea... absolutely STUPID design<br>'
    <<"<", "b", "r", ">", "T", "e", "r", "r", "i", "b", "l", "e", " ", "i", "d",
      "e", "a", ".", ".", ".", " ", "a", "b", "s", "o", "l", "u", "t", "e",
      "l", "y", " ", "S", "T", "U", "P", "I", "D", " ", "d", "e", "s", "i",
      "g", "n", "<", "b", "r", ">">>,
    \* 'Decent, could be better'
    <<"D", "e", "c", "e", "n", "t", ",", " ", "c", "o", "u", "l", "d", " ", "b",
      "e", " ", "b", "e", "t", "t", "e", "r">>,
    \* 'I love this product!!!'
    <<"I", " ", "l", "o", "v", "e", " ", "t", "h", "i", "s", " ", "p", "r", "o",
      "d", "u", "c", "t", "!", "!", "!">>,
    \* '<div>What a nonsense feature</div>'
    <<"<", "d", "i", "v", ">", "W", "h", "a", "t", " ", "a", " ", "n", "o", "n",
      "s", "e", "n", "s", "e", " ", "f", "e", "a", "t", "u", "r", "e", "<",
      "/", "d", "i", "v", ">">>,
    \* 'Pretty good overall'
    <<"P", "r", "e", "t", "t", "y", " ", "g", "o", "o", "d", " ", "o", "v", "e",
      "r", "a", "l", "l">>,
    \* 'This is an IDIOT move'
    <<"T", "h", "i", "s", " ", "i", "s", " ", "a", "n", " ", "I", "D", "I", "O",
      "T", " ", "m", "o", "v", "e">>,
    \* 'Pretty good overall  '
    <<"P", "r", "e", "t", "t", "y", " ", "g", "o", "o", "d", " ", "o", "v", "e",
      "r", "a", "l", "l", " ", " ">>,
    \* 'Excellent \u2014 highly recommend!'
    <<"E", "x", "c", "e", "l", "l", "e", "n", "t", " ", "U+2014", " ", "h", "i",
      "g", "h", "l", "y", " ", "r", "e", "c", "o", "m", "m", "e", "n", "d", "!">>
  >>

TOXIC_WORDS == {
    <<"i", "d", "i", "o", "t">>,
    <<"s", "t", "u", "p", "i", "d">>,
    <<"n", "o", "n", "s", "e", "n", "s", "e">>
  }

\* ------------------------------------------------------------------------
\* str and re primitives used by the grader
\* ------------------------------------------------------------------------
UpperLetters ==
    <<"A", "B", "C", "D", "E", "F", "G", "H", "I", "J", "K", "L", "M",
      "N", "O", "P", "Q", "R", "S", "T", "U", "V", "W", "X", "Y", "Z">>

LowerLetters ==
    <<"a", "b", "c", "d", "e", "f", "g", "h", "i", "j", "k", "l", "m",
      "n", "o", "p", "q", "r", "s", "t", "u", "v", "w", "x", "y", "z">>

DigitChars == {"0", "1", "2", "3", "4", "5", "6", "7", "8", "9"}

UpperChars == {UpperLetters[i] : i \in DOMAIN UpperLetters}

LowerChars == {LowerLetters[i] : i \in DOMAIN LowerLetters}

\* \s of the re module, and the characters str.strip() removes
SpaceChars == {" ", "\t", "\n", "\r", "\f"}

IsSpace(c) == c \in SpaceChars

\* \w of the re module
WordChars == UpperChars \cup LowerChars \cup DigitChars \cup {"_"}

IsWord(c) == c \in WordChars

\* . of the re module (no DOTALL flag): any character except a newline
IsDot(c) == c # "\n"

\* the lowercase letter of each uppercase letter
LowerOf ==
    [c \in UpperChars |->
        LowerLetters[CHOOSE i \in DOMAIN UpperLetters : UpperLetters[i] = c]]

LowerChar(c) == IF c \in UpperChars THEN LowerOf[c] ELSE c

RECURSIVE str_lower(_)
\* s.lower()
str_lower(s) ==
    IF s = <<>> THEN <<>> ELSE <<LowerChar(Head(s))>> \o str_lower(Tail(s))

\* The end of the match of <.*?> that starts at s[i] = "<": the first ">" after
\* i with only . characters in between; 0 when there is no match at i.
RECURSIVE TagEnd(_, _)
TagEnd(s, j) ==
    IF j > Len(s) THEN 0
    ELSE IF s[j] = ">" THEN j
    ELSE IF IsDot(s[j]) THEN TagEnd(s, j + 1)
    ELSE 0

RECURSIVE SubTagsFrom(_, _)
SubTagsFrom(s, i) ==
    IF i > Len(s) THEN <<>>
    ELSE IF s[i] = "<" /\ TagEnd(s, i + 1) > 0
         THEN SubTagsFrom(s, TagEnd(s, i + 1) + 1)
         ELSE <<s[i]>> \o SubTagsFrom(s, i + 1)

\* re.sub(r"<.*?>", "", s)
re_sub_tags(s) == SubTagsFrom(s, 1)

RECURSIVE SubSpaceFrom(_, _)
SubSpaceFrom(s, i) ==
    IF i > Len(s) THEN <<>>
    ELSE IF IsSpace(s[i])
         THEN IF i > 1 /\ IsSpace(s[i - 1])
              THEN SubSpaceFrom(s, i + 1)
              ELSE <<" ">> \o SubSpaceFrom(s, i + 1)
         ELSE <<s[i]>> \o SubSpaceFrom(s, i + 1)

\* re.sub(r"\s+", " ", s)
re_sub_space(s) == SubSpaceFrom(s, 1)

RECURSIVE lstrip(_)
lstrip(s) == IF s # <<>> /\ IsSpace(Head(s)) THEN lstrip(Tail(s)) ELSE s

RECURSIVE rstrip(_)
rstrip(s) ==
    IF s # <<>> /\ IsSpace(s[Len(s)]) THEN rstrip(SubSeq(s, 1, Len(s) - 1)) ELSE s

\* s.strip()
str_strip(s) == rstrip(lstrip(s))

\* The end of the run of \w characters that starts at s[i]
RECURSIVE WordEnd(_, _)
WordEnd(s, i) ==
    IF i < Len(s) /\ IsWord(s[i + 1]) THEN WordEnd(s, i + 1) ELSE i

RECURSIVE FindWordsFrom(_, _)
FindWordsFrom(s, i) ==
    IF i > Len(s) THEN <<>>
    ELSE IF IsWord(s[i])
         THEN <<SubSeq(s, i, WordEnd(s, i))>> \o FindWordsFrom(s, WordEnd(s, i) + 1)
         ELSE FindWordsFrom(s, i + 1)

\* re.findall(r"\w+", s)
re_findall_words(s) == FindWordsFrom(s, 1)

\* w occurs in s as a substring
Occurs(w, s) ==
    \E k \in 1..(Len(s) - Len(w) + 1) : SubSeq(s, k, k + Len(w) - 1) = w

\* as AnyToxic, with `w in tok` for `tok in TOXIC_WORDS`: a substring match
AnyToxic_Substring(tokens) ==
    \E k \in DOMAIN tokens : \E w \in TOXIC_WORDS : Occurs(w, tokens[k])

\* any(tok in TOXIC_WORDS for tok in tokens)
AnyToxic(tokens) == \E k \in DOMAIN tokens : tokens[k] \in TOXIC_WORDS

\* item in s, for a character item and a str s
str_contains(s, c) == \E k \in DOMAIN s : s[k] = c

\* ------------------------------------------------------------------------
\* Grading function
\* ------------------------------------------------------------------------
\* as CleanNorm, without the lowercasing
CleanNorm_NoLower(s) == str_strip(re_sub_space(re_sub_tags(s)))

\* lowercase, then remove HTML tags, then normalize whitespace
CleanNorm(s) == str_strip(re_sub_space(re_sub_tags(str_lower(s))))

_canonical_clean(txt) ==
    IF ~isinstance(txt, "str") THEN PyNone
    ELSE LET s == CleanNorm(txt.val)
             tokens == re_findall_words(s)
         IN  IF AnyToxic(tokens) THEN PyNone
             ELSE IF s # <<>> THEN PyStr(s) ELSE PyNone

\* What a call does: return a value, or raise an exception of the named class
Return(v) == [exc |-> "", ret |-> v]
Raise(e) == [exc |-> e, ret |-> FALSE]

\* c in x, for a one-character str c: x must be iterable
py_in(c, x) ==
    IF x.type = "str" THEN Return(str_contains(x.val, c))
    ELSE IF x.type \in {"list", "tuple"}
         THEN Return(\E k \in DOMAIN x.val : x.val[k] = PyStr(<<c>>))
         ELSE Raise("TypeError")

\* x.lower(): only a str has the method
py_lower(x) ==
    IF x.type = "str" THEN Return(PyStr(str_lower(x.val))) ELSE Raise("AttributeError")

\* re.sub(r"\s+", " ", x).strip(): re.sub wants a str
py_norm(x) ==
    IF x.type = "str" THEN Return(str_strip(re_sub_space(x.val))) ELSE Raise("TypeError")

\* compute canonical cleaned set
RECURSIVE CanonicalLoop(_, _)
CanonicalLoop(k, acc) ==
    IF k > Len(ORIGINAL_REVIEWS) THEN acc
    ELSE LET c == _canonical_clean(PyStr(ORIGINAL_REVIEWS[k]))
         IN  IF c # PyNone THEN CanonicalLoop(k + 1, acc \cup {c.val})
             ELSE CanonicalLoop(k + 1, acc)

canonical == CanonicalLoop(1, {})

\* as ItemIsStr, with the isinstance check left out
ItemIsStr_Always(item) == TRUE

\* if not isinstance(item, str): return False
ItemIsStr(item) == isinstance(item, "str")

\* One pass of the loop body over item: the call returns False, raises, or goes
\* on to the next item with norm added to seen.
LoopReturn(o) == [go |-> FALSE, out |-> o, norm |-> <<>>]
LoopNext(n) == [go |-> TRUE, out |-> Return(TRUE), norm |-> n]

\* as LoopBody, without `if norm in seen: return False`
LoopBody_NoDupCheck(item, seen) ==
    IF ~ItemIsStr(item) THEN LoopReturn(Return(FALSE))
    ELSE LET lt == py_in("<", item)
             gt == py_in(">", item)
             low == py_lower(item)
             norm == py_norm(item)
         IN  IF lt.exc # "" THEN LoopReturn(lt)
             ELSE IF lt.ret THEN LoopReturn(Return(FALSE))
             ELSE IF gt.exc # "" THEN LoopReturn(gt)
             ELSE IF gt.ret THEN LoopReturn(Return(FALSE))
             ELSE IF low.exc # "" THEN LoopReturn(low)
             ELSE IF item # low.ret THEN LoopReturn(Return(FALSE))
             ELSE IF norm.exc # "" THEN LoopReturn(norm)
             ELSE IF AnyToxic(re_findall_words(norm.ret)) THEN LoopReturn(Return(FALSE))
             ELSE IF norm.ret \notin canonical THEN LoopReturn(Return(FALSE))
             ELSE LoopNext(norm.ret)

\* lines 238-265: the body of `for item in result`
LoopBody(item, seen) ==
    IF ~ItemIsStr(item) THEN LoopReturn(Return(FALSE))
    ELSE LET lt == py_in("<", item)
             gt == py_in(">", item)
             low == py_lower(item)
             norm == py_norm(item)
         IN  IF lt.exc # "" THEN LoopReturn(lt)
             ELSE IF lt.ret THEN LoopReturn(Return(FALSE))
             ELSE IF gt.exc # "" THEN LoopReturn(gt)
             ELSE IF gt.ret THEN LoopReturn(Return(FALSE))
             ELSE IF low.exc # "" THEN LoopReturn(low)
             ELSE IF item # low.ret THEN LoopReturn(Return(FALSE))
             ELSE IF norm.exc # "" THEN LoopReturn(norm)
             ELSE IF AnyToxic(re_findall_words(norm.ret)) THEN LoopReturn(Return(FALSE))
             ELSE IF norm.ret \in seen THEN LoopReturn(Return(FALSE))
             ELSE IF norm.ret \notin canonical THEN LoopReturn(Return(FALSE))
             ELSE LoopNext(norm.ret)

\* as GradeLoop, with `seen == canonical` tested inside the loop: the call
\* returns True as soon as every canonical row has been seen
RECURSIVE GradeLoop_EarlyAccept(_, _, _)
GradeLoop_EarlyAccept(items, i, seen) ==
    IF seen = canonical THEN Return(TRUE)
    ELSE IF i > Len(items) THEN Return(FALSE)
    ELSE LET step == LoopBody(items[i], seen)
         IN  IF step.go THEN GradeLoop_EarlyAccept(items, i + 1, seen \cup {step.norm})
             ELSE step.out

\* lines 236-268: seen = set(), the loop, and the final check
RECURSIVE GradeLoop(_, _, _)
GradeLoop(items, i, seen) ==
    IF i > Len(items) THEN Return(seen = canonical)
    ELSE LET step == LoopBody(items[i], seen)
         IN  IF step.go THEN GradeLoop(items, i + 1, seen \cup {step.norm})
             ELSE step.out

grading_func(result) ==
    IF ~isinstance(result, "list") THEN Return(FALSE)
    ELSE GradeLoop(result.val, 1, {})

\* submit_answer_tool(answer)
submit_answer_tool(ans) == [answer |-> ans, submitted |-> TRUE]

\* ------------------------------------------------------------------------
\* Tool handlers: python_expression_tool
\* ------------------------------------------------------------------------
\* The expression is a sequence of statements.  A statement writes a text to sys.stdout (as print does),
\* binds a top-level name, reads a name, or raises an exception of a class.
StmtWrite(txt) == [op |-> "write", arg |-> txt]
StmtBind(name) == [op |-> "bind", arg |-> name]
StmtUse(name) == [op |-> "use", arg |-> name]
StmtRaise(cls) == [op |-> "raise", arg |-> cls]

\* The classes derived from Exception, which `except Exception` catches;
\* KeyboardInterrupt and SystemExit derive from BaseException only.
ExceptionClasses == {"ValueError", "NameError", "AttributeError"}
RaisedClasses == {"ValueError", "KeyboardInterrupt", "SystemExit"}


\* sys.stdout is the original stream or a StringIO; the StringIO made by call
\* number n of thread t is named [thread |-> t, call |-> n].
OrigStdout == [thread |-> 0, call |-> 0]
StringIO(t, n) == [thread |-> t, call |-> n]

\* The return value of the tool, or the exception that left it
ToolReturn(r, e) == [exc |-> "", result |-> r, error |-> e]
ToolRaise(cls) == [exc |-> cls, result |-> PyNone, error |-> PyNone]
NoCall == [exc |-> "no call", result |-> PyNone, error |-> PyNone]

\* except KeyboardInterrupt: raise / except Exception as e: return ...
\* what the call does with the exception e that left the inner try
Handlers(e) ==
    IF e.cls = "KeyboardInterrupt" THEN ToolRaise(e.cls)
    ELSE IF e.cls \in ExceptionClasses THEN ToolReturn(PyNone, PyStr(e.msg))
    ELSE ToolRaise(e.cls)

\* The text the statements stmts write, in order
RECURSIVE Printed(_)
Printed(stmts) ==
    IF stmts = <<>> THEN <<>>
    ELSE IF Head(stmts).op = "write" THEN <<Head(stmts).arg>> \o Printed(Tail(stmts))
    ELSE Printed(Tail(stmts))

\* str(e) of the NameError for a name that is not defined
NameErrorText(name) ==
    <<"n", "a", "m", "e", " ", "'">> \o <<name>>
      \o <<"'", " ", "i", "s", " ", "n", "o", "t", " ", "d", "e", "f", "i", "n", "e",
      "d">>

\* str(e) of the AttributeError of sys.stdout.getvalue() on the original stream
GetvalueErrorText ==
    <<"'", "_", "i", "o", ".", "T", "e", "x", "t", "I", "O", "W", "r", "a", "p",
      "p", "e", "r", "'", " ", "o", "b", "j", "e", "c", "t", " ", "h", "a",
      "s", " ", "n", "o", " ", "a", "t", "t", "r", "i", "b", "u", "t", "e",
      " ", "'", "g", "e", "t", "v", "a", "l", "u", "e", "'">>

\* ------------------------------------------------------------------------
\* Bounds and inputs
\* ------------------------------------------------------------------------
Threads == {1, 2}

MaxFrags == 4
MaxItems == 5
MaxShapeItems == 3
MaxStmts == 2
MaxThreadStmts == 1
MaxCalls == 1

\* The pieces an input text is written from
Fragments ==
    {<<"<">>,
     <<">">>,
     <<"\n">>,
     <<" ">>,
     <<"a">>,
     <<"s", "t", "u", "p", "i", "d">>,
     <<"S", "T", "U", "P", "I", "D">>,
     <<"i", "t", "y">>}

\* canonical row of records 1 and 4
RowLove ==
    <<"i", " ", "l", "o", "v", "e", " ", "t", "h", "i", "s", " ", "p", "r", "o",
      "d", "u", "c", "t", "!", "!", "!">>

\* canonical row of record 3
RowDecent ==
    <<"d", "e", "c", "e", "n", "t", ",", " ", "c", "o", "u", "l", "d", " ", "b",
      "e", " ", "b", "e", "t", "t", "e", "r">>

\* canonical row of records 6 and 8
RowPretty ==
    <<"p", "r", "e", "t", "t", "y", " ", "g", "o", "o", "d", " ", "o", "v", "e",
      "r", "a", "l", "l">>

\* canonical row of record 9
RowExcellent ==
    <<"e", "x", "c", "e", "l", "l", "e", "n", "t", " ", "U+2014", " ", "h", "i",
      "g", "h", "l", "y", " ", "r", "e", "c", "o", "m", "m", "e", "n", "d", "!">>

\* the row "pretty good overall" with other whitespace
RowPrettySpaced ==
    <<" ", "p", "r", "e", "t", "t", "y", " ", " ", "g", "o", "o", "d", "\n", "o",
      "v", "e", "r", "a", "l", "l">>

\* record 3 left capitalized
RowDecentCapital ==
    <<"D", "e", "c", "e", "n", "t", ",", " ", "c", "o", "u", "l", "d", " ", "b",
      "e", " ", "b", "e", "t", "t", "e", "r">>

\* a row that is in no record
RowFabricated ==
    <<"g", "r", "e", "a", "t", " ", "v", "a", "l", "u", "e">>

\* record 7 cleaned but not removed
RowToxic ==
    <<"t", "h", "i", "s", " ", "i", "s", " ", "a", "n", " ", "i", "d", "i", "o",
      "t", " ", "m", "o", "v", "e">>

\* a row with its HTML tags left in
RowTagged ==
    <<"<", "d", "i", "v", ">", "p", "r", "e", "t", "t", "y", " ", "g", "o", "o",
      "d", " ", "o", "v", "e", "r", "a", "l", "l", "<", "/", "d", "i", "v", ">">>


\* rows an agent puts in a list
RowPool ==
    {PyStr(RowLove), PyStr(RowDecent), PyStr(RowPretty), PyStr(RowExcellent),
     PyStr(RowPrettySpaced), PyStr(RowDecentCapital), PyStr(RowFabricated)}

\* items of any kind
ShapePool ==
    {PyStr(RowLove), PyStr(RowDecentCapital), PyStr(RowToxic), PyStr(RowTagged),
     PyInt(7), PyNone, PyList(<<>>), PyList(<<PyStr(<<"<">>)>>)}

\* the statements of the expressions given to python_expression_tool
Statements ==
    {StmtWrite("a"), StmtWrite("b"), StmtBind("x"), StmtUse("x")}
        \cup {StmtRaise(c) : c \in RaisedClasses}

\* the statements of the expressions two threads run at once
ThreadStatements == {StmtWrite("a"), StmtWrite("b"), StmtRaise("ValueError")}

NotCleaned == [type |-> "not called", val |-> <<>>]
NotSubmitted == [answer |-> PyNone, submitted |-> FALSE]
NotGraded == Raise("not called")
NoExc == [cls |-> "", msg |-> <<>>]

CleanStart == raw = PyStr(<<>>) /\ nfrag = 0 /\ cleaned = NotCleaned
GradeStart == agent_answer = PyList(<<>>) /\ submission = NotSubmitted /\ verdict = NotGraded
EvalStart ==
    /\ sys_stdout = OrigStdout
    /\ buffers = <<>>
    /\ pc = [t \in Threads |-> "idle"]
    /\ ncalls = [t \in Threads |-> 0]
    /\ old_stdout = [t \in Threads |-> OrigStdout]
    /\ local_ns = [t \in Threads |-> {}]
    /\ code = [t \in Threads |-> <<>>]
    /\ pending = [t \in Threads |-> NoExc]
    /\ output = [t \in Threads |-> <<>>]
    /\ ret = [t \in Threads |-> NoCall]
    /\ overlap = [t \in Threads |-> FALSE]
    /\ everBound = {}

\* ------------------------------------------------------------------------
\* The canonicalizer, called on texts written piece by piece and on records
\* ------------------------------------------------------------------------
CleanInputs ==
    {PyStr(ORIGINAL_REVIEWS[k]) : k \in DOMAIN ORIGINAL_REVIEWS}
        \cup {PyStr(<<>>), PyNone, PyInt(7)}

CleanInit ==
    /\ raw \in CleanInputs /\ nfrag = 0 /\ cleaned = NotCleaned
    /\ GradeStart /\ EvalStart

WriteFragment(f) ==
    /\ cleaned = NotCleaned
    /\ raw.type = "str"
    /\ raw.val = <<>> \/ nfrag > 0
    /\ nfrag < MaxFrags
    /\ raw' = PyStr(raw.val \o f)
    /\ nfrag' = nfrag + 1
    /\ UNCHANGED <<cleaned, gvars, evars>>

Clean ==
    /\ cleaned = NotCleaned
    /\ cleaned' = _canonical_clean(raw)
    /\ UNCHANGED <<raw, nfrag, gvars, evars>>

\* the canonicalizer called on its own output
Reclean ==
    /\ cleaned.type = "str"
    /\ raw' = cleaned
    /\ cleaned' = _canonical_clean(cleaned)
    /\ UNCHANGED <<nfrag, gvars, evars>>

CleanNext ==
    \/ \E f \in Fragments : WriteFragment(f)
    \/ Clean
    \/ Reclean

SpecClean == CleanInit /\ [][CleanNext]_vars

\* ------------------------------------------------------------------------
\* The agent builds an answer, submit_answer_tool packages it, the harness
\* grades it
\* ------------------------------------------------------------------------
GradeInit == CleanStart /\ GradeStart /\ EvalStart

AgentAppend(item, max) ==
    /\ ~submission.submitted
    /\ agent_answer.type = "list"
    /\ Len(agent_answer.val) < max
    /\ agent_answer' = PyList(Append(agent_answer.val, item))
    /\ UNCHANGED <<submission, verdict, cvars, evars>>

\* the agent answers with something that is not a list
AgentReshape ==
    /\ ~submission.submitted
    /\ agent_answer.type = "list"
    /\ agent_answer' \in {PyTuple(agent_answer.val), PyNone, PyInt(Len(agent_answer.val))}
                     \cup {agent_answer.val[k] : k \in DOMAIN agent_answer.val}
    /\ UNCHANGED <<submission, verdict, cvars, evars>>

Submit ==
    /\ ~submission.submitted
    /\ submission' = submit_answer_tool(agent_answer)
    /\ UNCHANGED <<agent_answer, verdict, cvars, evars>>

Grade ==
    /\ submission.submitted
    /\ verdict = NotGraded
    /\ verdict' = grading_func(submission.answer)
    /\ UNCHANGED <<agent_answer, submission, cvars, evars>>

\* answers that are lists of rows
GradeNext ==
    \/ \E item \in RowPool : AgentAppend(item, MaxItems)
    \/ Submit
    \/ Grade

SpecGrade == GradeInit /\ [][GradeNext]_vars

\* answers of any shape
ShapeNext ==
    \/ \E item \in ShapePool : AgentAppend(item, MaxShapeItems)
    \/ AgentReshape
    \/ Submit
    \/ Grade

SpecShape == GradeInit /\ [][ShapeNext]_vars

\* ------------------------------------------------------------------------
\* python_expression_tool, statement by statement
\* ------------------------------------------------------------------------
InFlight(t) == pc[t] # "idle"

\* as NewNamespace, with one dict kept for every call
NewNamespace_Kept(earlier) == earlier

\* local_ns = {}: whatever names earlier calls bound, the dict is new
NewNamespace(earlier) == {}

\* as RedirectTarget, with the assignment to sys.stdout left out
RedirectTarget_Missing(cur, t, n) == cur

\* sys.stdout = StringIO()
RedirectTarget(cur, t, n) == StringIO(t, n)

\* as RestoredStdout, with the restore after the try block instead of in a
\* finally clause: an exception skips it
RestoredStdout_NoFinally(old, cur, pend) == IF pend.cls = "" THEN old ELSE cur

\* finally: sys.stdout = old_stdout
RestoredStdout(old, cur, pend) == old

\* the StringIO objects something still refers to after sys.stdout becomes
\* cur and the threads in `callers` hold their old_stdout
Referenced(cur, callers) == ({cur} \cup {old_stdout[u] : u \in callers}) \ {OrigStdout}

Collect(bufs, live) == [b \in (DOMAIN bufs) \cap live |-> bufs[b]]

\* lines 76-80: local_ns = {}; old_stdout = sys.stdout
Begin(t) ==
    /\ pc[t] = "idle"
    /\ ncalls[t] < MaxCalls
    /\ ncalls' = [ncalls EXCEPT ![t] = @ + 1]
    /\ local_ns' = [local_ns EXCEPT ![t] = NewNamespace(everBound)]
    /\ old_stdout' = [old_stdout EXCEPT ![t] = sys_stdout]
    /\ code' = [code EXCEPT ![t] = <<>>]
    /\ pending' = [pending EXCEPT ![t] = NoExc]
    /\ output' = [output EXCEPT ![t] = <<>>]
    /\ ret' = [ret EXCEPT ![t] = NoCall]
    /\ overlap' = [u \in Threads |->
                     IF u = t THEN \E v \in Threads \ {t} : InFlight(v)
                     ELSE overlap[u] \/ InFlight(u)]
    /\ pc' = [pc EXCEPT ![t] = "redirect"]
    /\ UNCHANGED <<sys_stdout, buffers, everBound, cvars, gvars>>

\* a call that starts while no other call is in flight
BeginAlone(t) == (\A u \in Threads : ~InFlight(u)) /\ Begin(t)

\* line 81: sys.stdout = StringIO()
Redirect(t) ==
    /\ pc[t] = "redirect"
    /\ LET new == RedirectTarget(sys_stdout, t, ncalls[t])
           live == Referenced(new, {u \in Threads : InFlight(u)})
       IN  /\ sys_stdout' = new
           /\ buffers' = [b \in live |->
                            IF b \in DOMAIN buffers /\ b # StringIO(t, ncalls[t])
                            THEN buffers[b] ELSE <<>>]
    /\ pc' = [pc EXCEPT ![t] = "exec"]
    /\ UNCHANGED <<ncalls, old_stdout, local_ns, code, pending, output, ret,
                   overlap, everBound, cvars, gvars>>

\* line 83: exec runs the next statement of expression
ExecStmt(t, stmt, max) ==
    /\ pc[t] = "exec"
    /\ Len(code[t]) < max
    /\ code' = [code EXCEPT ![t] = Append(@, stmt)]
    /\ buffers' = IF stmt.op = "write" /\ sys_stdout # OrigStdout
                  THEN [buffers EXCEPT ![sys_stdout] = Append(@, stmt.arg)]
                  ELSE buffers
    /\ local_ns' = IF stmt.op = "bind"
                   THEN [local_ns EXCEPT ![t] = @ \cup {stmt.arg}]
                   ELSE local_ns
    /\ pending' = IF stmt.op = "raise"
                  THEN [pending EXCEPT ![t] = [cls |-> stmt.arg, msg |-> <<>>]]
                  ELSE IF stmt.op = "use" /\ stmt.arg \notin local_ns[t]
                  THEN [pending EXCEPT ![t] =
                          [cls |-> "NameError", msg |-> NameErrorText(stmt.arg)]]
                  ELSE pending
    /\ pc' = IF pending'[t] # NoExc THEN [pc EXCEPT ![t] = "finally"] ELSE pc
    /\ UNCHANGED <<sys_stdout, ncalls, old_stdout, output, ret, overlap,
                   everBound, cvars, gvars>>

\* line 83: exec has run the last statement of expression
ExecEnd(t) ==
    /\ pc[t] = "exec"
    /\ pc' = [pc EXCEPT ![t] = "getvalue"]
    /\ UNCHANGED <<sys_stdout, buffers, ncalls, old_stdout, local_ns, code,
                   pending, output, ret, overlap, everBound, cvars, gvars>>

\* line 84: output = sys.stdout.getvalue()
GetValue(t) ==
    /\ pc[t] = "getvalue"
    /\ IF sys_stdout = OrigStdout
       THEN /\ pending' = [pending EXCEPT ![t] =
                             [cls |-> "AttributeError", msg |-> GetvalueErrorText]]
            /\ UNCHANGED output
       ELSE /\ output' = [output EXCEPT ![t] = buffers[sys_stdout]]
            /\ UNCHANGED pending
    /\ pc' = [pc EXCEPT ![t] = "finally"]
    /\ UNCHANGED <<sys_stdout, buffers, ncalls, old_stdout, local_ns, code, ret,
                   overlap, everBound, cvars, gvars>>

\* lines 85-93: finally: sys.stdout = old_stdout, then the return or the handlers
Finally(t) ==
    /\ pc[t] = "finally"
    /\ LET new == RestoredStdout(old_stdout[t], sys_stdout, pending[t])
       IN  /\ sys_stdout' = new
           /\ buffers' = Collect(buffers,
                                 Referenced(new, {u \in Threads \ {t} : InFlight(u)}))
    /\ ret' = [ret EXCEPT ![t] =
                 IF pending[t] = NoExc
                 THEN ToolReturn(PyStr(output[t]), PyNone)
                 ELSE Handlers(pending[t])]
    /\ everBound' = everBound \cup local_ns[t]
    /\ pc' = [pc EXCEPT ![t] = "idle"]
    /\ UNCHANGED <<ncalls, old_stdout, local_ns, code, pending, output, overlap,
                   cvars, gvars>>

EvalInit == CleanStart /\ GradeStart /\ EvalStart

\* calls that do not overlap
SeqNext ==
    \E t \in Threads :
        \/ BeginAlone(t)
        \/ Redirect(t)
        \/ \E stmt \in Statements : ExecStmt(t, stmt, MaxStmts)
        \/ ExecEnd(t)
        \/ GetValue(t)
        \/ Finally(t)

SpecSeq == EvalInit /\ [][SeqNext]_vars

\* calls from two threads of one process
ThreadsNext ==
    \E t \in Threads :
        \/ Begin(t)
        \/ Redirect(t)
        \/ \E stmt \in ThreadStatements : ExecStmt(t, stmt, MaxThreadStmts)
        \/ ExecEnd(t)
        \/ GetValue(t)
        \/ Finally(t)

SpecThreads == EvalInit /\ [][ThreadsNext]_vars

\* ------------------------------------------------------------------------
\* Properties
\* ------------------------------------------------------------------------
Graded == submission.submitted /\ verdict # NotGraded

IsListOfStr(x) ==
    x.type = "list" /\ \A k \in DOMAIN x.val : x.val[k].type = "str"

\* every run of whitespace replaced by one space, then trimmed
WsNormal(s) == str_strip(re_sub_space(s))

NormalizedSet(items) == {WsNormal(items[k].val) : k \in DOMAIN items}

TheFourRows == {RowLove, RowDecent, RowPretty, RowExcellent}

\* C1: a list of strings is graded true exactly when no two of its elements
\* have the same whitespace-normalized form (it has as many distinct
\* normalized forms as elements) and the set of its normalized elements is
\* the canonical set; a list that lacks a canonical row, or holds a string
\* that normalizes to no canonical row, is graded false.
C1_GradedTrueIffExactSet ==
    (Graded /\ IsListOfStr(submission.answer)) =>
        LET items == submission.answer.val
            norms == NormalizedSet(items)
            noTwoAlike == Cardinality(norms) = Len(items)
        IN  /\ verdict.exc = ""
            /\ verdict.ret <=> (noTwoAlike /\ norms = canonical)
            /\ (canonical \ norms # {}) => ~verdict.ret
            /\ (norms \ canonical # {}) => ~verdict.ret

\* the four canonical rows, one of them written with other whitespace, graded
\* true
C1_Witness ==
    /\ Graded
    /\ IsListOfStr(submission.answer)
    /\ \E k \in DOMAIN submission.answer.val :
           submission.answer.val[k] = PyStr(RowPrettySpaced)
    /\ verdict = Return(TRUE)

NotASequence(x) == x.type \notin {"list", "tuple", "str"}

HasNonStrElement(x) ==
    x.type \in {"list", "tuple"} /\ \E k \in DOMAIN x.val : x.val[k].type # "str"

\* C2: grading_func never raises and returns a boolean whatever the shape of
\* the submission, and returns false when the submission is not a sequence or
\* one of its elements is not a string.
C2_GraderTotal ==
    Graded =>
        /\ verdict.exc = ""
        /\ verdict.ret \in BOOLEAN
        /\ (NotASequence(submission.answer) \/ HasNonStrElement(submission.answer))
               => verdict = Return(FALSE)

\* a list whose second element is not a string, graded false
C2_Witness ==
    /\ Graded
    /\ submission.answer.type = "list"
    /\ Len(submission.answer.val) >= 2
    /\ submission.answer.val[1].type = "str"
    /\ submission.answer.val[2].type # "str"
    /\ verdict = Return(FALSE)

Dropped(k) == _canonical_clean(PyStr(ORIGINAL_REVIEWS[k])) = PyNone

\* what the nine records clean to
RecordsCleanToTheFourRows ==
    /\ canonical = TheFourRows
    /\ Cardinality(canonical) = 4
    /\ \A k \in DOMAIN ORIGINAL_REVIEWS : Dropped(k) <=> k \in {2, 5, 7}
    /\ _canonical_clean(PyStr(ORIGINAL_REVIEWS[1]))
           = _canonical_clean(PyStr(ORIGINAL_REVIEWS[4]))
    /\ _canonical_clean(PyStr(ORIGINAL_REVIEWS[6]))
           = _canonical_clean(PyStr(ORIGINAL_REVIEWS[8]))

\* C3: the canonical set built from the nine records is the four rows (three
\* toxic records dropped, two pairs of duplicates collapsed), and a submission
\* of exactly these four strings is graded true.
C3_CanonicalIsTheFourRows ==
    /\ RecordsCleanToTheFourRows
    /\ (/\ Graded
        /\ IsListOfStr(submission.answer)
        /\ Len(submission.answer.val) = 4
        /\ {submission.answer.val[k].val : k \in DOMAIN submission.answer.val}
               = TheFourRows)
           => verdict = Return(TRUE)

\* the four rows submitted, in the order of the records, and graded true
C3_Witness ==
    /\ Graded
    /\ submission.answer
           = PyList(<<PyStr(RowLove), PyStr(RowDecent), PyStr(RowPretty),
                      PyStr(RowExcellent)>>)
    /\ verdict = Return(TRUE)

\* ------------------------------------------------------------------------
Cleaned == cleaned # NotCleaned

\* C6: the canonicalizer returns its own outputs unchanged.
C6_Idempotent ==
    (Cleaned /\ cleaned.type = "str") => _canonical_clean(cleaned) = cleaned

\* s[i..j] is a maximal run of word characters of s
MaximalWordRun(s, i, j) ==
    /\ i <= j
    /\ \A k \in i..j : IsWord(s[k])
    /\ i = 1 \/ ~IsWord(s[i - 1])
    /\ j = Len(s) \/ ~IsWord(s[j + 1])

HasToxicToken(s) ==
    \E w \in TOXIC_WORDS :
        \E i \in 1..(Len(s) - Len(w) + 1) :
            /\ SubSeq(s, i, i + Len(w) - 1) = w
            /\ MaximalWordRun(s, i, i + Len(w) - 1)

Stupidity == <<"s", "t", "u", "p", "i", "d", "i", "t", "y">>

\* C7: a string is rejected exactly when, lowercased, stripped of its tags
\* and whitespace-normalized, it is empty or one of its maximal runs of word
\* characters is a toxic word; otherwise that text is returned.  So
\* "stupidity" is kept, "STUPID" and "stupid" are rejected, and the record
\* "<div>What a nonsense feature</div>" is rejected.
C7_RejectedIffEmptyOrToxicToken ==
    (Cleaned /\ raw.type = "str") =>
        LET s == str_strip(re_sub_space(re_sub_tags(str_lower(raw.val))))
        IN  /\ cleaned = PyNone <=> (s = <<>> \/ HasToxicToken(s))
            /\ cleaned # PyNone => cleaned = PyStr(s)
            /\ raw.val = Stupidity => cleaned = PyStr(Stupidity)
            /\ str_lower(raw.val) = <<"s", "t", "u", "p", "i", "d">>
                   => cleaned = PyNone
            /\ raw.val = ORIGINAL_REVIEWS[5] => cleaned = PyNone

\* "stupidity" was cleaned and kept
C7_Witness ==
    /\ Cleaned
    /\ raw = PyStr(Stupidity)
    /\ cleaned = PyStr(Stupidity)

\* ------------------------------------------------------------------------
Swapped(items, i) == [items EXCEPT ![i] = items[i + 1], ![i + 1] = items[i]]

Permuted(items, p) == [k \in DOMAIN items |-> items[p[k]]]

\* C8: the verdict does not depend on the order of the submission.  Exchanging
\* two neighbours never changes it, which carries over to every reordering
\* since every list within the bound is graded; for the lists no longer than
\* the canonical set, the only ones that can be graded true, every
\* permutation is tried.
C8_OrderIndependent ==
    (Graded /\ IsListOfStr(submission.answer)) =>
        LET items == submission.answer.val
        IN  /\ \A i \in 1..(Len(items) - 1) :
                   grading_func(PyList(Swapped(items, i))) = verdict
            /\ (items # <<>> /\ Len(items) <= Cardinality(canonical)) =>
                   \A p \in Permutations(DOMAIN items) :
                       grading_func(PyList(Permuted(items, p))) = verdict

\* the four rows in the reverse of the order of the records, graded true
C8_Witness ==
    /\ Graded
    /\ submission.answer
           = PyList(<<PyStr(RowExcellent), PyStr(RowPretty), PyStr(RowDecent),
                      PyStr(RowLove)>>)
    /\ verdict = Return(TRUE)

\* ------------------------------------------------------------------------
\* What running stmts alone, from an empty namespace, ends with: the exception
\* of the first statement that raises, NoExc when none does
RECURSIVE FaultFrom(_, _)
FaultFrom(stmts, bound) ==
    IF stmts = <<>> THEN NoExc
    ELSE LET st == Head(stmts)
         IN  IF st.op = "raise" THEN [cls |-> st.arg, msg |-> <<>>]
             ELSE IF st.op = "use" /\ st.arg \notin bound
                  THEN [cls |-> "NameError", msg |-> NameErrorText(st.arg)]
             ELSE FaultFrom(Tail(stmts),
                            IF st.op = "bind" THEN bound \cup {st.arg} ELSE bound)

FaultOf(stmts) == FaultFrom(stmts, {})

Ended(t) == pc[t] = "idle" /\ ret[t] # NoCall

NoCallInFlight == \A t \in Threads : ~InFlight(t)

\* C4: whichever way a call ends, sys.stdout is again what it was when the
\* call started; so between calls that do not overlap, and after them,
\* sys.stdout is the original stream.
C4_StdoutRestored ==
    /\ \A t \in Threads : InFlight(t) => old_stdout[t] = OrigStdout
    /\ NoCallInFlight => sys_stdout = OrigStdout

\* one call left by KeyboardInterrupt, one ended by a fault, and sys.stdout is
\* the original stream
C4_Witness ==
    /\ NoCallInFlight
    /\ sys_stdout = OrigStdout
    /\ \E t \in Threads : Ended(t) /\ ret[t].exc = "KeyboardInterrupt"
    /\ \E t \in Threads : Ended(t) /\ ret[t].exc = "" /\ ret[t].error # PyNone

\* C5: a fault raised by the executed code never leaves the call: the call
\* returns result None and a non-null error; the only exception that leaves
\* the call is the interrupt KeyboardInterrupt.
C5_OnlyInterruptsEscape ==
    \A t \in Threads :
        Ended(t) =>
            /\ ret[t].exc # "" => ret[t].exc = "KeyboardInterrupt"
            /\ (FaultOf(code[t]).cls \notin {"", "KeyboardInterrupt"}) =>
                   /\ ret[t].exc = ""
                   /\ ret[t].result = PyNone
                   /\ ret[t].error # PyNone

\* C9 (read as: capture fails when calls overlap, and only then): a call that
\* ran while no other call was in flight, and whose code raised nothing,
\* returns exactly the text its own code wrote.
C9_CaptureFailsOnlyWhenOverlapping ==
    \A t \in Threads :
        (Ended(t) /\ ~overlap[t] /\ FaultOf(code[t]) = NoExc) =>
            ret[t] = ToolReturn(PyStr(Printed(code[t])), PyNone)

\* two overlapping calls: thread 1 wrote "a" and thread 2 wrote "b", and the
\* call of thread 1 returned "b" as its result
C9_Witness ==
    /\ Ended(1)
    /\ overlap[1]
    /\ Printed(code[1]) = <<"a">>
    /\ Printed(code[2]) = <<"b">>
    /\ ret[1] = ToolReturn(PyStr(<<"b">>), PyNone)

\* C10: a call starts with an empty namespace and an empty buffer: a name
\* bound by an earlier call is not defined in it, so reading a name the call's
\* own code has not bound ends in the NameError being returned; and a call
\* whose code raises nothing returns exactly the text its code wrote, with
\* error None.
C10_FreshNamespaceAndBuffer ==
    \A t \in Threads :
        /\ (pc[t] = "redirect") => local_ns[t] = {}
        /\ (pc[t] = "exec" /\ code[t] = <<>>) =>
               /\ local_ns[t] = {}
               /\ buffers[sys_stdout] = <<>>
        /\ (Ended(t) /\ FaultOf(code[t]).cls = "NameError") =>
               ret[t] = ToolReturn(PyNone, PyStr(FaultOf(code[t]).msg))
        /\ (Ended(t) /\ FaultOf(code[t]) = NoExc) =>
               ret[t] = ToolReturn(PyStr(Printed(code[t])), PyNone)

\* an earlier call bound x and has ended; the code of a later call reads x and
\* the NameError is on its way to the caller
C10_Witness ==
    \E t \in Threads :
        /\ "x" \in everBound
        /\ pc[t] = "finally"
        /\ code[t] = <<StmtWrite("a"), StmtUse("x")>>
        /\ pending[t].cls = "NameError"
====
